---- MODULE Spec2Model ----
(***************************************************************************)
(* Focus Mode v3 (src/focus/focus.py): the session orchestrator `start`,   *)
(* the timer loop `display_session_ui`, the commitment check               *)
(* `handle_stop_request`, the `cli` group and the `status` command, over   *)
(* the three files the program keeps: the active-session marker, the       *)
(* stats file and the session history, up to the break start suggests;    *)
(* the `stats` command; the notifier                                       *)
(* `notify`/`say` with the configuration file and the external commands    *)
(* it depends on; and the level resolver and the streak tracker of the     *)
(* design document.                                                        *)
(*                                                                         *)
(* One interactive process runs at a time.  `pc` is the position of the    *)
(* running command and `loc` the position inside the timer loop.  `now`    *)
(* is time.time() in seconds; it advances in steps of Tick seconds.        *)
(* `today_date` is date.today().                                           *)
(***************************************************************************)
EXTENDS Integers, Sequences, FiniteSets, TLC

\* ---------------------------------------------------------------- bounds
MaxDuration == 1        \* longest planned duration entered, in minutes
MaxClock == 80          \* seconds into the session up to which a pause or a prompt lasts
Tick == 40              \* seconds by which the clock advances in one step
MaxSessions == 2        \* records the history may hold
MaxDistractions == 1    \* distraction keys logged in one session
MaxDay == 1             \* calendar days that may pass
MaxXP == 7600           \* largest cumulative XP resolved to a level
MaxStreak == 7          \* longest daily streak an installation starts from
MaxFreezes == 1         \* most freezes an installation starts from
MaxGap == 3             \* most days since the last qualifying date at the start
MaxTodaySessions == 4   \* completed sessions counted in one day
MaxLongDuration == 91   \* longest session whose break is suggested, in minutes

\* ------------------------------------------------------ program constants
SecondsPerMinute == 60
MinReasonLength == 20
UltradianMinutes == 80
LongBreakEvery == 4
BreakPhrase == "I choose to break my commitment"

\* ----------------------------------------------------------------- inputs
DurationInputs == {-1, 0} \cup (1..MaxDuration)
Commitments == {"soft", "standard", "deep"}
Keys == {"p", "s", "d", "\n"}
KeyEvents == Keys \cup {"none"}
StopAnswers == {"", "phone call", "my build is broken now", BreakPhrase}
\* the choices of the prompt "Did you achieve your goal?"
GoalAnswers == {"y", "n", "partial"}

\* the external commands found on the machine: a Mac has both, another
\* system has neither
Hosts == {{"osascript", "say"}, {}}

VARIABLES
    ACTIVE_SESSION_FILE,   \* the marker file: NoFile or the active_session record
    STATS_FILE,            \* the stats file: NoFile or a stats record
    SESSIONS_FILE,         \* the session history, a sequence of records
                           \* (of a completed record the duration is kept; of a
                           \* partial one completed, minutes_completed, reason)
    today_date,            \* date.today()
    now,                   \* time.time()
    pc,                    \* position of the running command, "idle" if none
    exit,                  \* how the last command ended
    shown,                 \* what the last command displayed: the status, or the
                           \* break start suggested
    stats,                 \* start: the in-memory stats
    duration,              \* start: planned duration in minutes
    commitment,            \* start: commitment level
    result,                \* start: what display_session_ui returned
    goal_achieved,         \* start: the answer to "Did you achieve your goal?"
    loc,                   \* display_session_ui: position in the loop body
    start_time,            \* display_session_ui locals
    distractions,
    paused,
    pause_time,
    pause_start,
    elapsed,
    key,
    typed,                 \* handle_stop_request: what Prompt.ask returned
    input_seen,            \* a key or an interrupt has reached this session
    CONFIG_FILE,           \* the configuration file: NoFile or [exists, content]
    host,                  \* the external commands that exist on this machine
    shown_today,           \* today's counters as the last command displayed them
    cumulative_xp,         \* level resolver: its argument
    level_info,            \* level resolver: what levelInfo returned
    streak_stats           \* streak tracker: the running stats it transforms

files == <<ACTIVE_SESSION_FILE, STATS_FILE, SESSIONS_FILE>>
env == <<today_date, now>>
proc == <<pc, exit, shown, shown_today>>
startLocals == <<stats, duration, commitment, result, goal_achieved>>
uiLocals == <<loc, start_time, distractions, paused, pause_time, pause_start, elapsed, key,
              typed, input_seen>>
installed == <<CONFIG_FILE, host>>
game == <<cumulative_xp, level_info, streak_stats>>
\* what the session commands never touch
kept == <<installed, game>>
vars == <<files, env, proc, startLocals, uiLocals, kept>>

NoFile == [exists |-> FALSE]
NoResult == [pending |-> TRUE]
\* the marker's content is only ever displayed; its presence is what counts
ActiveSession == [exists |-> TRUE]
NoStats == [loaded |-> FALSE]
\* a stats file whose content json.load does not accept
Unparsable == [unparsable |-> TRUE]
\* nothing displayed about today
NoToday == [displayed |-> FALSE]
\* levelInfo not called yet
NoLevel == [resolved |-> FALSE]
\* no streaks tracked
NoStreaks == [tracked |-> FALSE]

\* -------------------------------------------------------- core utilities
get_default_stats ==
    [total_sessions |-> 0,
     total_focus_minutes |-> 0,
     today |-> [date |-> today_date, sessions |-> 0, focus_minutes |-> 0]]

\* load_stats returns the stored record, or the defaults when there is no
\* file; json.load raises on a file it cannot parse
load_stats_raises == STATS_FILE = Unparsable
load_stats == IF STATS_FILE # NoFile THEN STATS_FILE ELSE get_default_stats

load_sessions == SESSIONS_FILE

ensure_today_stats(s) ==
    IF "today" \notin DOMAIN s
    THEN [k \in DOMAIN s \cup {"today"} |->
             IF k = "today" THEN get_default_stats.today ELSE s[k]]
    ELSE IF s.today.date # today_date
    THEN [s EXCEPT !.today = get_default_stats.today]
    ELSE s

\* A dict read from the configuration is a record whose field `keys` is the
\* set of keys present; d.get(k, default) and the d[k] that raises KeyError.
EmptyDict == [keys |-> {}]
get(d, k, default) == IF k \in d.keys THEN d[k] ELSE default
has_key(d, k) == k \in d.keys

\* get_default_config: the sections the session commands read.  `environment`
\* stands for environment.blocking.apps, whose quit_on_start lists the apps.
DefaultNotifications ==
    [keys |-> {"enabled", "sound", "voice"}, enabled |-> TRUE, sound |-> "Glass", voice |-> TRUE]
DefaultEnvironment == [keys |-> {"quit_on_start"}, quit_on_start |-> <<"Slack", "Discord">>]
DefaultSession == [keys |-> {"short_break", "long_break"}, short_break |-> 5, long_break |-> 15]
DefaultUltradian == [keys |-> {"enforce_rest_after_90"}, enforce_rest_after_90 |-> TRUE]
DefaultNeuroscience == [keys |-> {"ultradian"}, ultradian |-> DefaultUltradian]
get_default_config ==
    [keys |-> {"session", "notifications", "neuroscience", "environment"},
     session |-> DefaultSession,
     notifications |-> DefaultNotifications,
     neuroscience |-> DefaultNeuroscience,
     environment |-> DefaultEnvironment]

\* load_config: the file's content as it is, the defaults only without a file
load_config == IF CONFIG_FILE.exists THEN CONFIG_FILE.content ELSE get_default_config

\* notify, say and quit_distraction_apps: "ok", or the exception they raise
notify(config, sound) ==
    IF ~get(get(config, "notifications", EmptyDict), "enabled", TRUE) THEN "ok"
    ELSE IF sound /\ ~has_key(config, "notifications") THEN "KeyError"
    ELSE IF "osascript" \notin host THEN "FileNotFoundError"
    ELSE "ok"

say(config) ==
    IF get(get(config, "notifications", EmptyDict), "voice", TRUE) /\ "say" \notin host
    THEN "FileNotFoundError"
    ELSE "ok"

quit_distraction_apps(config) ==
    IF get(get(config, "environment", EmptyDict), "quit_on_start", <<>>) # <<>>
       /\ "osascript" \notin host
    THEN "FileNotFoundError"
    ELSE "ok"

\* int(x / 60) for a number of seconds x >= 0
Minutes(seconds) == seconds \div SecondsPerMinute

\* handle_stop_request judging the phrase of the deep level by its length
handle_stop_request_DeepByLength(c, text) ==
    IF c = "soft" THEN TRUE
    ELSE IF c = "standard" THEN ~(Len(text) < MinReasonLength)
    ELSE IF c = "deep" THEN ~(Len(text) < MinReasonLength)
    ELSE TRUE

\* handle_stop_request, given what the user types at its prompt
handle_stop_request(c, text) ==
    IF c = "soft" THEN TRUE
    ELSE IF c = "standard" THEN ~(Len(text) < MinReasonLength)
    ELSE IF c = "deep" THEN ~(text # BreakPhrase)
    ELSE TRUE

\* the level resolver and the streak tracker are not in use
GameAtRest ==
    /\ cumulative_xp = 0
    /\ level_info = NoLevel
    /\ streak_stats = NoStreaks

\* a first run: no file of the program exists yet, no command runs
FirstRun ==
    /\ CONFIG_FILE = NoFile
    /\ shown_today = NoToday
    /\ ACTIVE_SESSION_FILE = NoFile
    /\ STATS_FILE = NoFile
    /\ SESSIONS_FILE = <<>>
    /\ today_date = 0
    /\ now = 0
    /\ pc = "idle"
    /\ exit = "none"
    /\ shown = "none"
    /\ stats = NoStats
    /\ duration = 0
    /\ commitment = "standard"
    /\ result = NoResult
    /\ goal_achieved = "unasked"
    /\ loc = "top"
    /\ start_time = 0
    /\ distractions = 0
    /\ paused = FALSE
    /\ pause_time = 0
    /\ pause_start = 0
    /\ elapsed = 0
    /\ key = "none"
    /\ typed = ""
    /\ input_seen = FALSE

Init ==
    /\ FirstRun
    /\ host \in Hosts
    /\ GameAtRest

\* ------------------------------------------------------------ the clock
total_seconds == duration * SecondsPerMinute

\* the places of the loop body where it waits: the sleeps, the stop prompt,
\* and select() with its half-second timeout while paused
Waiting == loc \in {"sleep", "dsleep", "except", "prompt"} \/ (paused /\ loc = "poll")

\* Time passes while the loop waits.  While the countdown runs it passes
\* until the loop has seen the expiry; while paused or at the stop prompt it
\* passes until the session is MaxClock seconds old.
ClockAdvance ==
    /\ pc = "timer"
    /\ Waiting
    /\ IF paused \/ loc = "prompt"
       THEN now - start_time < MaxClock
       ELSE now - start_time - pause_time < total_seconds
    /\ now' = now + Tick
    /\ UNCHANGED <<files, today_date, proc, startLocals, uiLocals>>
    /\ UNCHANGED kept

\* Midnight passes: date.today() changes.  A command reads the date once,
\* when it loads the statistics, so a midnight during a command shows to the
\* program as a midnight right after it.
DayPasses ==
    /\ pc = "idle"
    /\ today_date < MaxDay
    /\ today_date' = today_date + 1
    /\ UNCHANGED <<files, now, proc, startLocals, uiLocals>>
    /\ UNCHANGED kept

\* the locals of display_session_ui go out of scope
UiLocalsGone ==
    /\ loc' = "top"
    /\ start_time' = 0
    /\ distractions' = 0
    /\ paused' = FALSE
    /\ pause_time' = 0
    /\ pause_start' = 0
    /\ elapsed' = 0
    /\ key' = "none"
    /\ typed' = ""

\* the process ends: the command returned ("returned"), click turned a
\* KeyboardInterrupt into its Abort ("aborted"), or the named exception
\* left the command
ProcessExit(how) ==
    /\ pc' = "idle"
    /\ exit' = how
    /\ now' = 0
    /\ stats' = NoStats
    /\ duration' = 0
    /\ commitment' = "standard"
    /\ result' = NoResult
    /\ goal_achieved' = "unasked"
    /\ UiLocalsGone
    /\ input_seen' = FALSE

\* time.time() when a command begins: some instant after the epoch
ProcessClock == Tick

\* ------------------------------------------------------- command: status
\* today's counters of a stats record, as today.get('sessions', 0) and
\* today.get('focus_minutes', 0) print them under the current date
TodayShown(s) ==
    [date |-> today_date,
     sessions |-> IF "today" \in DOMAIN s THEN s.today.sessions ELSE 0,
     focus_minutes |-> IF "today" \in DOMAIN s THEN s.today.focus_minutes ELSE 0]

\* StatusBody clearing the marker it finds
StatusBody_RemovesMarker ==
    /\ IF load_stats_raises
       THEN /\ shown' = "none"
            /\ shown_today' = NoToday
            /\ exit' = "JSONDecodeError"
            /\ UNCHANGED ACTIVE_SESSION_FILE
       ELSE IF ACTIVE_SESSION_FILE # NoFile
       THEN /\ shown' = "in_progress"
            /\ shown_today' = NoToday
            /\ exit' = "returned"
            /\ ACTIVE_SESSION_FILE' = NoFile
       ELSE /\ shown' = "summary"
            /\ shown_today' = TodayShown(ensure_today_stats(load_stats))
            /\ exit' = "returned"
            /\ UNCHANGED ACTIVE_SESSION_FILE
    /\ pc' = "idle"
    /\ UNCHANGED <<STATS_FILE, SESSIONS_FILE, env, startLocals, uiLocals>>
    /\ UNCHANGED kept

StatusBody ==
    /\ IF load_stats_raises
       THEN /\ shown' = "none"
            /\ shown_today' = NoToday
            /\ exit' = "JSONDecodeError"
       ELSE IF ACTIVE_SESSION_FILE # NoFile
       THEN /\ shown' = "in_progress"
            /\ shown_today' = NoToday
            /\ exit' = "returned"
       ELSE /\ shown' = "summary"
            /\ shown_today' = TodayShown(ensure_today_stats(load_stats))
            /\ exit' = "returned"
    /\ pc' = "idle"
    /\ UNCHANGED <<files, env, startLocals, uiLocals>>
    /\ UNCHANGED kept

status ==
    /\ pc = "idle"
    /\ StatusBody

\* ------------------------------------------------- command: stats today
stats_today ==
    /\ pc = "idle"
    /\ IF load_stats_raises
       THEN /\ shown' = "none"
            /\ shown_today' = NoToday
            /\ exit' = "JSONDecodeError"
       ELSE /\ shown' = "stats"
            /\ shown_today' = TodayShown(load_stats)
            /\ exit' = "returned"
    /\ pc' = "idle"
    /\ UNCHANGED <<files, env, startLocals, uiLocals>>
    /\ UNCHANGED kept

\* -------------------------------------------------------- command: start
\* start, from its entry to the first prompt
StartBody(d, c) ==
    /\ Len(SESSIONS_FILE) < MaxSessions
    /\ shown' = "none"
    /\ shown_today' = NoToday
    /\ IF load_stats_raises
       THEN /\ ProcessExit("JSONDecodeError")
            /\ UNCHANGED <<files, today_date>>
       ELSE /\ stats' = ensure_today_stats(load_stats)
            /\ duration' = d
            /\ commitment' = c
            /\ result' = NoResult
            /\ goal_achieved' = "unasked"
            /\ now' = ProcessClock
            /\ pc' = "prompts"
            /\ exit' = "none"
            /\ UNCHANGED <<files, today_date, uiLocals>>
    /\ UNCHANGED kept

start ==
    /\ pc = "idle"
    /\ \E d \in DurationInputs, c \in Commitments : StartBody(d, c)

\* the bare invocation of the command group
cli ==
    /\ pc = "idle"
    /\ IF ACTIVE_SESSION_FILE # NoFile
       THEN StatusBody
       ELSE \E d \in DurationInputs, c \in Commitments : StartBody(d, c)

\* StartCancel saving the stats it loaded before it returns
StartCancel_SavesStats ==
    /\ pc = "prompts"
    /\ STATS_FILE' = stats
    /\ ProcessExit("returned")
    /\ UNCHANGED <<ACTIVE_SESSION_FILE, SESSIONS_FILE, today_date, shown, shown_today>>
    /\ UNCHANGED kept

\* the essentialism check declined: the session is cancelled
StartCancel ==
    /\ pc = "prompts"
    /\ ProcessExit("returned")
    /\ UNCHANGED <<files, today_date, shown, shown_today>>
    /\ UNCHANGED kept

\* the remaining prompts, the environment automation and the marker write
StartWriteMarker ==
    /\ pc = "prompts"
    /\ \E no_env \in BOOLEAN :
          LET o == IF no_env THEN "ok" ELSE quit_distraction_apps(load_config) IN
          IF o # "ok"
          THEN /\ ProcessExit(o)
               /\ UNCHANGED ACTIVE_SESSION_FILE
          ELSE /\ ACTIVE_SESSION_FILE' = ActiveSession
               /\ pc' = "notify"
               /\ UNCHANGED <<exit, now, startLocals, uiLocals>>
    /\ UNCHANGED <<STATS_FILE, SESSIONS_FILE, today_date, shown, shown_today>>
    /\ UNCHANGED kept

\* notify(...) after the marker write, then the entry of display_session_ui
StartNotify ==
    /\ pc = "notify"
    /\ LET o == notify(load_config, TRUE) IN
          IF o # "ok"
          THEN ProcessExit(o)
          ELSE /\ pc' = "timer"
               /\ start_time' = now
               /\ distractions' = 0
               /\ paused' = FALSE
               /\ pause_time' = 0
               /\ loc' = "top"
               /\ key' = "none"
               /\ UNCHANGED <<exit, now, startLocals, pause_start, elapsed, typed, input_seen>>
    /\ UNCHANGED <<files, today_date, shown, shown_today>>
    /\ UNCHANGED kept

\* ---------------------------------------------- display_session_ui: loop
StoppedPaused == [completed |-> FALSE, distractions |-> distractions, reason |-> "stopped"]

StoppedRunning ==
    [completed |-> FALSE, distractions |-> distractions, reason |-> "stopped",
     minutes |-> Minutes(elapsed)]

Interrupted ==
    [completed |-> FALSE, distractions |-> distractions, reason |-> "interrupted",
     minutes |-> Minutes(now - start_time)]

Finished == [completed |-> TRUE, distractions |-> distractions, minutes |-> duration]

\* display_session_ui returns r to start
Return(r) ==
    /\ result' = r
    /\ pc' = "after_ui"
    /\ UiLocalsGone

\* the loop goes on at position l
Goto(l) ==
    /\ loc' = l
    /\ UNCHANGED <<pc, result>>

\* `elapsed` and `key` are assigned again before the loop next reads them:
\* outside the poll and the stop prompt they hold no information
ElapsedKeyDead ==
    /\ elapsed' = 0
    /\ key' = "none"
    /\ typed' = ""

\* the commitment levels at which handle_stop_request asks the user
asks_user(c) == c \in {"standard", "deep"}

\* LoopTop with `elapsed = time.time() - pause_time`, start_time forgotten
LoopTop_NoStartTime ==
    /\ pc = "timer" /\ loc = "top"
    /\ IF paused
       THEN /\ Goto("poll")
            /\ UNCHANGED <<elapsed, start_time, distractions, paused, pause_time,
                           pause_start, key, typed>>
       ELSE IF total_seconds - (now - pause_time) <= 0
       THEN Return(Finished)
       ELSE /\ elapsed' = now - pause_time
            /\ Goto("poll")
            /\ UNCHANGED <<start_time, distractions, paused, pause_time,
                           pause_start, key, typed>>
    /\ UNCHANGED <<files, env, exit, shown, shown_today, stats, duration, commitment, goal_achieved, input_seen>>
    /\ UNCHANGED kept

\* top of the loop body: the paused banner, or the expiry test
LoopTop ==
    /\ pc = "timer" /\ loc = "top"
    /\ IF paused
       THEN /\ Goto("poll")
            /\ UNCHANGED <<elapsed, start_time, distractions, paused, pause_time,
                           pause_start, key, typed>>
       ELSE IF total_seconds - (now - start_time - pause_time) <= 0
       THEN Return(Finished)
       ELSE /\ elapsed' = now - start_time - pause_time
            /\ Goto("poll")
            /\ UNCHANGED <<start_time, distractions, paused, pause_time,
                           pause_start, key, typed>>
    /\ UNCHANGED <<files, env, exit, shown, shown_today, stats, duration, commitment, goal_achieved, input_seen>>
    /\ UNCHANGED kept

\* the paused branch resumes: paused = False, pause_time += now - pause_start
Resume ==
    /\ paused' = FALSE
    /\ pause_time' = pause_time + (now - pause_start)
    /\ pause_start' = 0
    /\ Goto("top")
    /\ ElapsedKeyDead
    /\ UNCHANGED <<start_time, distractions>>

\* select() on stdin while paused: a timeout, or one key read
PollPaused(k) ==
    /\ pc = "timer" /\ loc = "poll" /\ paused
    /\ input_seen' = (input_seen \/ k # "none")
    /\ IF k = "none"
       THEN /\ Goto("top")
            /\ UNCHANGED <<start_time, distractions, paused, pause_time,
                           pause_start, elapsed, key, typed>>
       ELSE IF k = "s" /\ asks_user(commitment)
       THEN /\ key' = k
            /\ Goto("prompt")
            /\ UNCHANGED <<start_time, distractions, paused, pause_time,
                           pause_start, elapsed, typed>>
       ELSE IF k = "s" /\ handle_stop_request(commitment, typed)
       THEN Return(StoppedPaused)
       ELSE Resume
    /\ UNCHANGED <<files, env, exit, shown, shown_today, stats, duration, commitment, goal_achieved>>
    /\ UNCHANGED kept

\* select() on stdin while running: a timeout, or one key read and handled
PollRunning(k) ==
    /\ pc = "timer" /\ loc = "poll" /\ ~paused
    /\ k = "d" => distractions < MaxDistractions
    /\ input_seen' = (input_seen \/ k # "none")
    /\ IF k = "p"
       THEN /\ paused' = TRUE
            /\ pause_start' = now
            /\ Goto("sleep")
            /\ ElapsedKeyDead
            /\ UNCHANGED <<start_time, distractions, pause_time>>
       ELSE IF k = "s" /\ asks_user(commitment)
       THEN /\ key' = k
            /\ Goto("prompt")
            /\ UNCHANGED <<start_time, distractions, paused, pause_time,
                           pause_start, elapsed, typed>>
       ELSE IF k = "s" /\ handle_stop_request(commitment, typed)
       THEN Return(StoppedRunning)
       ELSE IF k = "d"
       THEN /\ distractions' = distractions + 1
            /\ Goto("dsleep")
            /\ ElapsedKeyDead
            /\ UNCHANGED <<start_time, paused, pause_time, pause_start>>
       ELSE /\ Goto("sleep")
            /\ ElapsedKeyDead
            /\ UNCHANGED <<start_time, distractions, paused, pause_time, pause_start>>
    /\ UNCHANGED <<files, env, exit, shown, shown_today, stats, duration, commitment, goal_achieved>>
    /\ UNCHANGED kept

Poll == \E k \in KeyEvents : PollPaused(k) \/ PollRunning(k)

\* Prompt.ask in handle_stop_request returns what the user typed
StopPrompt ==
    /\ pc = "timer" /\ loc = "prompt"
    /\ \E t \in StopAnswers : typed' = t
    /\ Goto("answered")
    /\ UNCHANGED <<files, env, exit, shown, shown_today, stats, duration, commitment, goal_achieved,
                   start_time, distractions, paused, pause_time, pause_start,
                   elapsed, key, input_seen>>
    /\ UNCHANGED kept

\* StopDecide with the paused branch returning whatever the check said
StopDecide_PausedAlwaysStops ==
    /\ pc = "timer" /\ loc = "answered"
    /\ IF paused
       THEN Return(StoppedPaused)
       ELSE IF handle_stop_request(commitment, typed)
       THEN Return(StoppedRunning)
       ELSE /\ Goto("sleep")
            /\ ElapsedKeyDead
            /\ UNCHANGED <<start_time, distractions, paused, pause_time, pause_start>>
    /\ UNCHANGED <<files, env, exit, shown, shown_today, stats, duration, commitment, goal_achieved, input_seen>>
    /\ UNCHANGED kept

\* handle_stop_request returns, and the loop acts on what it returned
StopDecide ==
    /\ pc = "timer" /\ loc = "answered"
    /\ IF handle_stop_request(commitment, typed)
       THEN Return(IF paused THEN StoppedPaused ELSE StoppedRunning)
       ELSE IF paused
       THEN Resume
       ELSE /\ Goto("sleep")
            /\ ElapsedKeyDead
            /\ UNCHANGED <<start_time, distractions, paused, pause_time, pause_start>>
    /\ UNCHANGED <<files, env, exit, shown, shown_today, stats, duration, commitment, goal_achieved, input_seen>>
    /\ UNCHANGED kept

\* a sleep ends: time.sleep(2) after a logged distraction, the sleep of a
\* bare `except:` (followed by `continue` while paused), time.sleep(0.9)
\* ending the body
LoopSleep ==
    /\ pc = "timer"
    /\ \/ loc = "dsleep" /\ loc' = "sleep"
       \/ loc = "except" /\ loc' = (IF paused THEN "top" ELSE "sleep")
       \/ loc = "sleep" /\ loc' = "top"
    /\ UNCHANGED <<files, env, proc, startLocals, start_time, distractions,
                   paused, pause_time, pause_start, elapsed, key, typed, input_seen>>
    /\ UNCHANGED kept

\* KeyboardInterrupt inside display_session_ui: the bare `except:` around the
\* key handling takes it, elsewhere the handler of the function does
UiInterrupt ==
    /\ pc = "timer"
    /\ input_seen' = TRUE
    /\ IF loc \in {"poll", "prompt", "answered", "dsleep"}
       THEN /\ Goto("except")
            /\ ElapsedKeyDead
            /\ UNCHANGED <<start_time, distractions, paused, pause_time, pause_start>>
       ELSE Return(Interrupted)
    /\ UNCHANGED <<files, env, exit, shown, shown_today, stats, duration, commitment, goal_achieved>>
    /\ UNCHANGED kept

\* ------------------------------------------------ start, after the timer
\* StartAfterUi with the unlink done on the completed path only
StartAfterUi_UnlinkIfCompleted ==
    /\ pc = "after_ui"
    /\ ACTIVE_SESSION_FILE' = IF result.completed THEN NoFile ELSE ACTIVE_SESSION_FILE
    /\ pc' = IF result.completed THEN "complete" ELSE "abort"
    /\ UNCHANGED <<STATS_FILE, SESSIONS_FILE, env, exit, shown, shown_today, startLocals, uiLocals>>
    /\ UNCHANGED kept

\* the marker is removed; the result decides the path
StartAfterUi ==
    /\ pc = "after_ui"
    /\ ACTIVE_SESSION_FILE' = NoFile
    /\ pc' = IF result.completed THEN "complete" ELSE "abort"
    /\ UNCHANGED <<STATS_FILE, SESSIONS_FILE, env, exit, shown, shown_today, startLocals, uiLocals>>
    /\ UNCHANGED kept

\* notify(...) and say(...) of the completed path
StartCompleteNotify ==
    /\ pc = "complete"
    /\ LET n == notify(load_config, TRUE)
           o == IF n # "ok" THEN n ELSE say(load_config) IN
          IF o # "ok"
          THEN ProcessExit(o)
          ELSE pc' = "reflect" /\ UNCHANGED <<exit, now, startLocals, uiLocals>>
    /\ UNCHANGED <<files, today_date, shown, shown_today>>
    /\ UNCHANGED kept

\* the reflection prompts, the stats update and save_sessions
StartReflect ==
    /\ pc = "reflect"
    /\ IF ~({"total_sessions", "total_focus_minutes"} \subseteq DOMAIN stats)
       THEN /\ ProcessExit("KeyError")
            /\ UNCHANGED <<files, today_date, shown, shown_today>>
       ELSE /\ goal_achieved' \in GoalAnswers
            /\ SESSIONS_FILE' = Append(load_sessions, [duration |-> duration])
            /\ stats' = [stats EXCEPT
                            !.total_sessions = @ + 1,
                            !.total_focus_minutes = @ + duration,
                            !.today.sessions = @ + 1,
                            !.today.focus_minutes = @ + duration]
            /\ pc' = "save_stats"
            /\ UNCHANGED <<ACTIVE_SESSION_FILE, STATS_FILE, env, exit, shown, shown_today,
                           duration, commitment, result, uiLocals>>
    /\ UNCHANGED kept

\* StartAbort counting the aborted session in the totals
StartAbort_CountsSession ==
    /\ pc = "abort"
    /\ SESSIONS_FILE' = Append(load_sessions,
          [completed |-> FALSE,
           minutes_completed |-> IF "minutes" \in DOMAIN result THEN result.minutes ELSE 0,
           reason |-> result.reason])
    /\ stats' = [stats EXCEPT !.total_sessions = @ + 1]
    /\ pc' = "save_stats"
    /\ UNCHANGED <<ACTIVE_SESSION_FILE, STATS_FILE, env, exit, shown, shown_today,
                   duration, commitment, result, goal_achieved, uiLocals>>
    /\ UNCHANGED kept

\* the abort path up to save_sessions
StartAbort ==
    /\ pc = "abort"
    /\ SESSIONS_FILE' = Append(load_sessions,
          [completed |-> FALSE,
           minutes_completed |-> IF "minutes" \in DOMAIN result THEN result.minutes ELSE 0,
           reason |-> result.reason])
    /\ pc' = "save_stats"
    /\ UNCHANGED <<ACTIVE_SESSION_FILE, STATS_FILE, env, exit, shown, shown_today, startLocals, uiLocals>>
    /\ UNCHANGED kept

\* the break start goes on to suggest after a completed session: the
\* ultradian rest, or the standard break, long or short
suggested_break(config, d, sessions_today) ==
    IF d >= UltradianMinutes
       /\ get(get(get(config, "neuroscience", EmptyDict), "ultradian", EmptyDict),
              "enforce_rest_after_90", FALSE)
    THEN "ultradian_rest"
    ELSE IF sessions_today % LongBreakEvery = 0
    THEN "long_break"
    ELSE "short_break"

\* save_stats(stats) ending either path, and after a completed session the
\* break suggested.  The break timers call notify and say as lines 474-475
\* did, with the same configuration on the same machine.
StartSaveStats ==
    /\ pc = "save_stats"
    /\ STATS_FILE' = stats
    /\ shown' = IF result.completed
                THEN suggested_break(load_config, duration, stats.today.sessions)
                ELSE shown
    /\ ProcessExit("returned")
    /\ UNCHANGED <<ACTIVE_SESSION_FILE, SESSIONS_FILE, today_date, shown_today>>
    /\ UNCHANGED kept

\* KeyboardInterrupt in start outside display_session_ui: the command aborts
StartInterrupt ==
    /\ pc \in {"prompts", "notify", "after_ui", "complete", "reflect", "abort", "save_stats"}
    /\ ProcessExit("aborted")
    /\ UNCHANGED <<files, today_date, shown, shown_today>>
    /\ UNCHANGED kept

Next ==
    \/ ClockAdvance
    \/ DayPasses
    \/ status
    \/ stats_today
    \/ start
    \/ cli
    \/ StartCancel
    \/ StartWriteMarker
    \/ StartNotify
    \/ LoopTop
    \/ Poll
    \/ StopPrompt
    \/ StopDecide
    \/ LoopSleep
    \/ UiInterrupt
    \/ StartAfterUi
    \/ StartCompleteNotify
    \/ StartReflect
    \/ StartAbort
    \/ StartSaveStats
    \/ StartInterrupt

Spec == Init /\ [][Next]_vars

\* ------------------------------------------- display_session_ui on its own
\* display_session_ui entered for each duration and commitment level, the
\* session's marker written and the stats of a first run loaded
UiInit ==
    /\ CONFIG_FILE = NoFile
    /\ host = {"osascript", "say"}
    /\ shown_today = NoToday
    /\ GameAtRest
    /\ ACTIVE_SESSION_FILE = ActiveSession
    /\ STATS_FILE = NoFile
    /\ SESSIONS_FILE = <<>>
    /\ today_date = 0
    /\ now = ProcessClock
    /\ pc = "timer"
    /\ exit = "none"
    /\ shown = "none"
    /\ stats = [total_sessions |-> 0, total_focus_minutes |-> 0,
                today |-> [date |-> 0, sessions |-> 0, focus_minutes |-> 0]]
    /\ duration \in DurationInputs
    /\ commitment \in Commitments
    /\ result = NoResult
    /\ goal_achieved = "unasked"
    /\ loc = "top"
    /\ start_time = now
    /\ distractions = 0
    /\ paused = FALSE
    /\ pause_time = 0
    /\ pause_start = 0
    /\ elapsed = 0
    /\ key = "none"
    /\ typed = ""
    /\ input_seen = FALSE

UiNext ==
    \/ ClockAdvance
    \/ LoopTop
    \/ Poll
    \/ StopPrompt
    \/ StopDecide
    \/ LoopSleep
    \/ UiInterrupt

\* The loop body goes on whenever it does not wait for the user: select()
\* times out, the sleeps end, and a loop that sleeps again and again sees
\* time pass.  The user need not ever answer the stop prompt.
UiSpec ==
    /\ UiInit
    /\ [][UiNext]_vars
    /\ SF_vars(ClockAdvance)
    /\ WF_vars(LoopTop)
    /\ WF_vars(Poll)
    /\ WF_vars(StopDecide)
    /\ WF_vars(LoopSleep)

\* ------------------------------------- an installation found as it is
\* The configuration files a user may have written: any subset of the
\* sections, and in `notifications` any subset of its keys; a key that is
\* absent holds the value the defaults give it.
NotificationSections ==
    {n \in [keys : SUBSET {"enabled", "sound", "voice"},
            enabled : BOOLEAN, sound : {"Glass"}, voice : BOOLEAN] :
        /\ "enabled" \notin n.keys => n.enabled
        /\ "voice" \notin n.keys => n.voice}
ConfigContents ==
    {c \in [keys : SUBSET {"notifications", "environment"},
            notifications : NotificationSections,
            environment : {DefaultEnvironment}] :
        "notifications" \notin c.keys => c.notifications = DefaultNotifications}

\* the history of an installation with StoredSessions completed sessions of
\* one minute behind it, and the stats that go with it
StoredSessions == MaxSessions - 1
StoredHistory == [i \in 1..StoredSessions |-> [duration |-> 1]]
StoredGoodStats ==
    [total_sessions |-> StoredSessions,
     total_focus_minutes |-> StoredSessions,
     today |-> [date |-> 0, sessions |-> StoredSessions, focus_minutes |-> StoredSessions]]
\* what the stats file may hold: nothing, text that is not JSON, a record
\* without total_sessions, a record without today, the record saved last
StoredStats ==
    {NoFile, Unparsable,
     [total_focus_minutes |-> StoredSessions, today |-> StoredGoodStats.today],
     [total_sessions |-> StoredSessions, total_focus_minutes |-> StoredSessions],
     StoredGoodStats}

StoredInit ==
    /\ host \in Hosts
    /\ \/ /\ CONFIG_FILE = NoFile
          /\ STATS_FILE \in StoredStats
       \/ /\ CONFIG_FILE \in {[exists |-> TRUE, content |-> c] : c \in ConfigContents}
          /\ STATS_FILE = StoredGoodStats
    /\ SESSIONS_FILE = StoredHistory
    /\ ACTIVE_SESSION_FILE = NoFile
    /\ shown_today = NoToday
    /\ GameAtRest
    /\ today_date = 0
    /\ now = 0
    /\ pc = "idle"
    /\ exit = "none"
    /\ shown = "none"
    /\ stats = NoStats
    /\ duration = 0
    /\ commitment = "standard"
    /\ result = NoResult
    /\ goal_achieved = "unasked"
    /\ loc = "top"
    /\ start_time = 0
    /\ distractions = 0
    /\ paused = FALSE
    /\ pause_time = 0
    /\ pause_start = 0
    /\ elapsed = 0
    /\ key = "none"
    /\ typed = ""
    /\ input_seen = FALSE

StoredSpec == StoredInit /\ [][Next]_vars

\* ------------------------------------------- start from the timer's return
\* the durations of the sessions followed to their break: a short one, and
\* those around the two thresholds of the ultradian rest
LongDurations == {1} \cup (UltradianMinutes - 1 .. MaxLongDuration)
\* values a user may give session.sessions_before_long_break
LongBreakSettings == {2, 3}
SessionSections ==
    {DefaultSession} \cup
    {[keys |-> {"short_break", "long_break", "sessions_before_long_break"},
      short_break |-> 5, long_break |-> 15, sessions_before_long_break |-> n] :
         n \in LongBreakSettings}
UltradianSections ==
    {[keys |-> {"enforce_rest_after_90"}, enforce_rest_after_90 |-> b] : b \in BOOLEAN}
\* no configuration file, or one that has the notifications of the defaults
\* and its own session and neuroscience sections
BreakConfigs ==
    {NoFile} \cup
    {[exists |-> TRUE,
      content |-> [keys |-> {"session", "notifications", "neuroscience"},
                   session |-> ss,
                   notifications |-> DefaultNotifications,
                   neuroscience |-> [keys |-> {"ultradian"}, ultradian |-> u]]] :
         ss \in SessionSections, u \in UltradianSections}

\* the stats after n completed sessions of one minute on day 0
StatsAfter(n) ==
    [total_sessions |-> n,
     total_focus_minutes |-> n,
     today |-> [date |-> 0, sessions |-> n, focus_minutes |-> n]]

\* display_session_ui has just returned from a countdown that ran out, for
\* each duration, each configuration and each number of sessions completed
\* earlier in the day
BreakInit ==
    /\ host = {"osascript", "say"}
    /\ CONFIG_FILE \in BreakConfigs
    /\ GameAtRest
    /\ \E n \in 0..(MaxTodaySessions - 1) :
          /\ STATS_FILE = (IF n = 0 THEN NoFile ELSE StatsAfter(n))
          /\ SESSIONS_FILE = [i \in 1..n |-> [duration |-> 1]]
          /\ stats = StatsAfter(n)
    /\ ACTIVE_SESSION_FILE = ActiveSession
    /\ today_date = 0
    /\ duration \in LongDurations
    /\ now = ProcessClock + duration * SecondsPerMinute
    /\ pc = "after_ui"
    /\ exit = "none"
    /\ shown = "none"
    /\ shown_today = NoToday
    /\ commitment = "standard"
    /\ result = [completed |-> TRUE, distractions |-> 0, minutes |-> duration]
    /\ goal_achieved = "unasked"
    /\ loc = "top"
    /\ start_time = 0
    /\ distractions = 0
    /\ paused = FALSE
    /\ pause_time = 0
    /\ pause_start = 0
    /\ elapsed = 0
    /\ key = "none"
    /\ typed = ""
    /\ input_seen = FALSE

BreakNext ==
    \/ StartAfterUi
    \/ StartCompleteNotify
    \/ StartReflect
    \/ StartSaveStats
    \/ StartInterrupt

BreakSpec == BreakInit /\ [][BreakNext]_vars

\* --------------------------------------------------------- level resolver
\* the tiered schedule: so many level-ups at so much XP each, then FinalCost
\* for every further one
Tiers ==
    <<[levelups |-> 5, cost |-> 100],
      [levelups |-> 5, cost |-> 250],
      [levelups |-> 5, cost |-> 400],
      [levelups |-> 5, cost |-> 600]>>
FinalCost == 800

\* the title of the range the level lies in
title_StartsOneLate(level) ==
    IF level <= 6 THEN "Apprentice"
    ELSE IF level <= 11 THEN "Focused"
    ELSE IF level <= 16 THEN "Deep Worker"
    ELSE IF level <= 21 THEN "Flow Master"
    ELSE "Productivity Legend"

title(level) ==
    IF level <= 5 THEN "Apprentice"
    ELSE IF level <= 10 THEN "Focused"
    ELSE IF level <= 15 THEN "Deep Worker"
    ELSE IF level <= 20 THEN "Flow Master"
    ELSE "Productivity Legend"

\* the test that lets a level-up happen, with the exact threshold left out
affords_OnlyAbove(remaining, cost) == remaining > cost

\* the remaining XP pays for a level-up: the exact threshold does
affords(remaining, cost) == remaining >= cost

LevelInfo(level, remaining, cost) ==
    [level |-> level, title |-> title(level),
     xpIntoLevel |-> remaining, xpForNextLevel |-> cost]

\* subtract the tier's cost while the remaining XP affords it, one level
\* each time, and move to the next tier when the tier's level-ups are used
RECURSIVE resolve(_, _, _, _)
resolve(tier, used, level, remaining) ==
    IF tier > Len(Tiers)
    THEN IF affords(remaining, FinalCost)
         THEN resolve(tier, 0, level + 1, remaining - FinalCost)
         ELSE LevelInfo(level, remaining, FinalCost)
    ELSE IF used = Tiers[tier].levelups
    THEN resolve(tier + 1, 0, level, remaining)
    ELSE IF affords(remaining, Tiers[tier].cost)
    THEN resolve(tier, used + 1, level + 1, remaining - Tiers[tier].cost)
    ELSE LevelInfo(level, remaining, Tiers[tier].cost)

levelInfo(cumulativeXP) == resolve(1, 0, 1, cumulativeXP)

\* levelInfo is called on the cumulative XP
ResolveLevel ==
    /\ level_info' = levelInfo(cumulative_xp)
    /\ UNCHANGED <<files, env, proc, startLocals, uiLocals, installed,
                   cumulative_xp, streak_stats>>

\* levelInfo applied to every cumulative XP up to MaxXP
LevelInit ==
    /\ FirstRun
    /\ host = {"osascript", "say"}
    /\ cumulative_xp \in 0..MaxXP
    /\ level_info = NoLevel
    /\ streak_stats = NoStreaks

LevelSpec == LevelInit /\ [][ResolveLevel]_vars

\* --------------------------------------------------------- streak tracker
\* configuration defaults: streaks.sessions_per_day, streaks.freeze_earn_days
sessions_per_day == 3
freeze_earn_days == 7

Max(a, b) == IF a >= b THEN a ELSE b
\* last-qualifying-date is a date or absent: the set of at most one date
NoDate == {}
DaysSince(last) == today_date - (CHOOSE d \in last : TRUE)

\* streak_rule with the bridged day costing no freeze
streak_rule_FreezeKept(st) ==
    LET last == st.last_qualifying_date
        Rule(streak, freezes, applied) ==
            [daily_streak |-> streak, freezes_available |-> freezes, applied |-> applied]
    IN IF last = NoDate THEN Rule(1, st.freezes_available, TRUE)
       ELSE IF DaysSince(last) = 1 THEN Rule(st.daily_streak + 1, st.freezes_available, TRUE)
       ELSE IF DaysSince(last) = 2 /\ st.freezes_available > 0
       THEN Rule(st.daily_streak + 1, st.freezes_available, TRUE)
       ELSE IF DaysSince(last) > 1 THEN Rule(1, st.freezes_available, TRUE)
       ELSE Rule(st.daily_streak, st.freezes_available, FALSE)

\* the rule that applies on a day whose count has reached the threshold:
\* the first qualifying day, the day after the last one, a missed day
\* bridged by a freeze, a longer gap; none for the same day again
streak_rule(st) ==
    LET last == st.last_qualifying_date
        Rule(streak, freezes, applied) ==
            [daily_streak |-> streak, freezes_available |-> freezes, applied |-> applied]
    IN IF last = NoDate THEN Rule(1, st.freezes_available, TRUE)
       ELSE IF DaysSince(last) = 1 THEN Rule(st.daily_streak + 1, st.freezes_available, TRUE)
       ELSE IF DaysSince(last) = 2 /\ st.freezes_available > 0
       THEN Rule(st.daily_streak + 1, st.freezes_available - 1, TRUE)
       ELSE IF DaysSince(last) > 1 THEN Rule(1, st.freezes_available, TRUE)
       ELSE Rule(st.daily_streak, st.freezes_available, FALSE)

\* earns_freeze looking at the streak alone
earns_freeze_WheneverMultiple(applied, streak) ==
    streak > 0 /\ streak % freeze_earn_days = 0

\* a freeze is earned when the daily streak becomes a positive multiple of
\* freeze_earn_days
earns_freeze(applied, streak) ==
    applied /\ streak > 0 /\ streak % freeze_earn_days = 0

\* the daily-streak evaluation, recording today as the last qualifying date
evaluate_daily_streak(st) ==
    LET r == streak_rule(st)
        earned == IF earns_freeze(r.applied, r.daily_streak) THEN 1 ELSE 0
    IN [st EXCEPT !.daily_streak = r.daily_streak,
                  !.daily_streak_best = Max(@, r.daily_streak),
                  !.freezes_available = r.freezes_available + earned,
                  !.last_qualifying_date = {today_date}]

updateStreaks(s, sessionCompleted) ==
    LET run == IF sessionCompleted THEN s.streaks.current_run + 1 ELSE 0
        st == [s.streaks EXCEPT !.current_run = run,
                                !.current_run_best = Max(@, run)]
    IN IF sessionCompleted /\ s.today.sessions >= sessions_per_day
       THEN [s EXCEPT !.streaks = evaluate_daily_streak(st)]
       ELSE [s EXCEPT !.streaks = st]

\* a session completes: it is counted in today's sessions, then the streak
\* tracker is invoked
SessionCompleted ==
    /\ LET s == ensure_today_stats(streak_stats)
           counted == [s EXCEPT !.today.sessions = @ + 1]
       IN /\ counted.today.sessions <= MaxTodaySessions
          /\ streak_stats' = updateStreaks(counted, TRUE)
    /\ UNCHANGED <<files, env, proc, startLocals, uiLocals, installed,
                   cumulative_xp, level_info>>

\* a session is aborted: the streak tracker is invoked with completed=false
SessionAborted ==
    /\ streak_stats' = updateStreaks(ensure_today_stats(streak_stats), FALSE)
    /\ UNCHANGED <<files, env, proc, startLocals, uiLocals, installed,
                   cumulative_xp, level_info>>

\* the streaks an installation may have on the morning of day 0: none yet,
\* or a streak whose last qualifying date lies 1..MaxGap days back
StartingStreaks ==
    {st \in [daily_streak : 0..MaxStreak,
             daily_streak_best : 0..Max(MaxStreak, freeze_earn_days),
             current_run : {0},
             current_run_best : {0},
             freezes_available : 0..MaxFreezes,
             last_qualifying_date : {NoDate} \cup {{0 - g} : g \in 1..MaxGap}] :
        /\ st.daily_streak = 0 <=> st.last_qualifying_date = NoDate
        /\ st.daily_streak_best =
              IF st.freezes_available > 0
              THEN Max(st.daily_streak, freeze_earn_days)
              ELSE st.daily_streak}

StreakInit ==
    /\ FirstRun
    /\ host = {"osascript", "say"}
    /\ cumulative_xp = 0
    /\ level_info = NoLevel
    /\ streak_stats \in
          {[today |-> [date |-> 0, sessions |-> 0, focus_minutes |-> 0], streaks |-> st] :
              st \in StartingStreaks}

StreakNext ==
    \/ DayPasses
    \/ SessionCompleted
    \/ SessionAborted

StreakSpec == StreakInit /\ [][StreakNext]_vars

\* ================================================================ properties
MarkerPresent == ACTIVE_SESSION_FILE # NoFile
InTimer == pc = "timer"
UiReturns == pc = "timer" /\ pc' = "after_ui"
HasResult == "completed" \in DOMAIN result
Aborted(r) == "completed" \in DOMAIN r /\ ~r.completed
ReturnsReason(why) ==
    /\ UiReturns
    /\ Aborted(result')
    /\ "reason" \in DOMAIN result'
    /\ result'.reason = why

\* the seconds of this session spent paused, the pause under way included
PausedSoFar == pause_time + (IF paused THEN now - pause_start ELSE 0)
\* the seconds of this session spent counting down
ActiveSeconds == now - start_time - PausedSoFar

\* C1: when start returns after display_session_ui gave it a result
\* (completed, stopped or interrupted), the marker is absent.
C1_MarkerAbsentOnReturn ==
    [][(pc # "idle" /\ pc' = "idle" /\ exit' = "returned" /\ HasResult)
         => ~MarkerPresent']_vars

\* a start that wrote the marker and ran the timer has returned
C1_Witness ==
    /\ pc = "idle" /\ exit = "returned" /\ shown = "none"
    /\ SESSIONS_FILE # <<>>
    /\ ~MarkerPresent

\* C2: the marker is present exactly while a session is in progress, in
\* every reachable state.
SessionInProgress == pc \in {"notify", "timer", "after_ui"}
C2_MarkerIffSessionInProgress == MarkerPresent <=> SessionInProgress

\* C3: with the marker present no request starts a session: every command
\* taken from the prompt ends at the prompt again, having shown the status.
C3_NoStartWhileMarkerPresent ==
    [][(pc = "idle" /\ MarkerPresent) => pc' = "idle"]_vars

\* C4: an interrupt arriving anywhere in the loop body, running or paused,
\* makes the loop return completed=false with reason "interrupted".
C4_InterruptEndsLoop ==
    [][UiInterrupt => ReturnsReason("interrupted")]_vars

\* C5: every result of the timer loop carries completed, distractions and
\* minutes; an aborted one also carries reason in {stopped, interrupted},
\* and after a stop, running or paused, its minutes are the elapsed time at
\* exit floored to whole minutes.
WellFormedResult(r, seconds) ==
    /\ {"completed", "distractions", "minutes"} \subseteq DOMAIN r
    /\ ~r.completed =>
          /\ "reason" \in DOMAIN r
          /\ r.reason \in {"stopped", "interrupted"}
          /\ r.reason = "stopped" => r.minutes = seconds \div SecondsPerMinute
C5_ResultWellFormed ==
    [][UiReturns => WellFormedResult(result', ActiveSeconds)]_vars

\* C6: the minutes reported when the session is stopped or interrupted never
\* count time spent paused.
C6_PauseNotCounted ==
    [][(UiReturns /\ Aborted(result') /\ "minutes" \in DOMAIN result')
         => result'.minutes <= ActiveSeconds \div SecondsPerMinute]_vars

\* the step that ends the handling of a stop key: the key read at the soft
\* level, the answer judged at the other levels
StopKeyHandled ==
    \/ commitment = "soft" /\ (PollPaused("s") \/ PollRunning("s"))
    \/ StopDecide

C8_DistractionKeyKeepsState ==
    [][(PollPaused("d") \/ PollRunning("d")) =>
          /\ pc' = "timer"
          /\ paused' = paused
          /\ distractions' = distractions + (IF paused THEN 0 ELSE 1)]_vars

\* C9: the loop starts running; with no key and no interrupt it ends by
\* expiry with completed=true, minutes = the planned duration and no
\* distractions; and it only ever ends by expiry (the countdown used up),
\* by a stop request or by an interrupt.
QuietFinish ==
    /\ pc = "after_ui"
    /\ result = [completed |-> TRUE, distractions |-> 0, minutes |-> duration]
C9_ExpiryStopOrInterrupt ==
    /\ [](InTimer /\ ~input_seen => ~paused)
    /\ (InTimer /\ ~input_seen) ~> (input_seen \/ QuietFinish)
    /\ [][UiReturns =>
            \/ /\ result'.completed
               /\ ~paused /\ loc = "top"
               /\ now - start_time - pause_time >= total_seconds
               /\ result'.minutes = duration
            \/ ReturnsReason("stopped") /\ StopKeyHandled
            \/ ReturnsReason("interrupted") /\ UiInterrupt]_vars

\* a countdown of at least a minute ran out with nothing pressed
C9_Witness ==
    /\ QuietFinish
    /\ ~input_seen
    /\ duration >= 1

\* the four counters as stored
StoredCounters ==
    IF STATS_FILE = NoFile
    THEN <<0, 0, 0, 0>>
    ELSE <<STATS_FILE.total_sessions, STATS_FILE.total_focus_minutes,
           STATS_FILE.today.sessions, STATS_FILE.today.focus_minutes>>
CompletedSave == pc = "save_stats" /\ pc' = "idle" /\ exit' = "returned" /\ result.completed

TodayAsLoaded ==
    IF STATS_FILE # NoFile /\ STATS_FILE.today.date = stats.today.date
    THEN <<STATS_FILE.today.sessions, STATS_FILE.today.focus_minutes>>
    ELSE <<0, 0>>
AbortedSave == pc = "save_stats" /\ pc' = "idle" /\ exit' = "returned" /\ ~result.completed

PartialRecord(r) ==
    [completed |-> FALSE,
     minutes_completed |-> IF "minutes" \in DOMAIN r THEN r.minutes ELSE 0,
     reason |-> r.reason]

\* C11: an interrupt that arrives while the marker is present ends the
\* session as interrupted; the session then appends exactly one partial
\* record (completed=false, reason "interrupted", the elapsed minutes) and
\* the command ends normally.
C11_InterruptIsAbortedSession ==
    [][/\ (MarkerPresent /\ (UiInterrupt \/ StartInterrupt)) => ReturnsReason("interrupted")
       /\ (HasResult /\ Aborted(result) /\ result.reason = "interrupted" /\ pc' = "idle") =>
             /\ exit' = "returned"
             /\ Len(SESSIONS_FILE') > 0
             /\ SESSIONS_FILE'[Len(SESSIONS_FILE')] = PartialRecord(result)]_vars

\* C12: notify and say never raise: whatever commands the machine has and
\* whatever the configuration holds, the steps of start that call them go
\* on with the session.
C12_NotifierNeverRaises ==
    [][(StartNotify \/ StartCompleteNotify) => (pc' # "idle" /\ exit' = exit)]_vars

\* the run of start under way has entered display_session_ui
ReachedTimer == pc \in {"timer", "after_ui", "complete", "reflect", "abort", "save_stats"}
Appended ==
    /\ Len(SESSIONS_FILE') = Len(SESSIONS_FILE) + 1
    /\ SubSeq(SESSIONS_FILE', 1, Len(SESSIONS_FILE)) = SESSIONS_FILE

\* C13: the stored history only grows by appending, and every run of start
\* that reaches the timer appends exactly one record before it ends: the
\* records stored before stay an unchanged prefix.
C13_AppendOnlyOnePerRun ==
    [][/\ SESSIONS_FILE' = SESSIONS_FILE \/ Appended
       /\ Appended => (HasResult /\ pc \in {"reflect", "abort"} /\ pc' = "save_stats")
       /\ (pc # "save_stats" /\ pc' = "save_stats") => Appended
       /\ (ReachedTimer /\ pc' = "idle") => pc = "save_stats"]_vars

\* today's counters as a command that reads them on today_date must see
\* them: the stored ones if stored under today_date, zero otherwise
TodayOnRead ==
    IF STATS_FILE # NoFile /\ "today" \in DOMAIN STATS_FILE
       /\ STATS_FILE.today.date = today_date
    THEN [date |-> today_date,
          sessions |-> STATS_FILE.today.sessions,
          focus_minutes |-> STATS_FILE.today.focus_minutes]
    ELSE [date |-> today_date, sessions |-> 0, focus_minutes |-> 0]

\* C14: every command that displays or updates today's counters first
\* resets them when the stored date is not the current date: what status
\* and `stats today` display, and what start goes on to update, never
\* counts a session of another day.
C14_TodayResetOnRead ==
    [][/\ ((status \/ cli \/ stats_today) /\ shown_today' # NoToday) =>
             shown_today' = TodayOnRead
       /\ ((start \/ cli) /\ pc' = "prompts") =>
             TodayShown(stats') = TodayOnRead /\ stats'.today.date = today_date]_vars

\* C15: a stats file that is absent, unparsable or lacks a field is a first
\* run: no command ends by the exception of a failed load or of a missing
\* field, and start works on the defaults when the file is absent.
C15_StoredStateNeverFatal ==
    [][/\ (pc \in {"idle", "reflect"} /\ pc' = "idle") =>
             exit' \notin {"JSONDecodeError", "KeyError"}
       /\ ((start \/ cli) /\ STATS_FILE = NoFile) =>
             (pc' = "prompts" /\ stats' = get_default_stats)]_vars

\* C16: with any subset of the sections and keys present in the
\* configuration file, no step of start fails on a key that is missing.
C16_MissingKeysNeverFatal ==
    [][(pc \in {"prompts", "notify", "complete"} /\ pc' = "idle") => exit' # "KeyError"]_vars

Resolved == level_info # NoLevel

\* C17: for every cumulative XP >= 0, levelInfo returns a level of at least
\* 1 and an xpIntoLevel strictly below xpForNextLevel.
C17_LevelAtLeastOneIntoBelowNext ==
    Resolved =>
        /\ cumulative_xp >= 0
        /\ level_info.level >= 1
        /\ level_info.xpIntoLevel >= 0
        /\ level_info.xpIntoLevel < level_info.xpForNextLevel

\* an XP one short of a level-up in the open-ended last tier
C17_Witness ==
    /\ Resolved
    /\ level_info.level >= 21
    /\ level_info.xpIntoLevel = FinalCost - 1

\* the XP consumed by the level-ups that lead to a level, tier by tier
Spent(level) ==
    LET ups == level - 1
        In(lo, hi) == IF ups <= lo THEN 0 ELSE IF ups >= hi THEN hi - lo ELSE ups - lo
    IN 100 * In(0, 5) + 250 * In(5, 10) + 400 * In(10, 15) + 600 * In(15, 20)
       + 800 * (IF ups > 20 THEN ups - 20 ELSE 0)
CostFrom(level) ==
    IF level < 6 THEN 100
    ELSE IF level < 11 THEN 250
    ELSE IF level < 16 THEN 400
    ELSE IF level < 21 THEN 600
    ELSE 800
TitleOf(level) ==
    CASE level \in 1..5 -> "Apprentice"
      [] level \in 6..10 -> "Focused"
      [] level \in 11..15 -> "Deep Worker"
      [] level \in 16..20 -> "Flow Master"
      [] OTHER -> "Productivity Legend"
Info(l, t, into, next) == [level |-> l, title |-> t, xpIntoLevel |-> into, xpForNextLevel |-> next]

\* C18: levelInfo follows the tiered schedule (5 level-ups at 100 XP, 5 at
\* 250, 5 at 400, 5 at 600, then 800 each): the XP is the cost of the
\* level-ups made plus xpIntoLevel, an exact threshold makes the level-up,
\* levelInfo(0), levelInfo(100) and levelInfo(500) are (1, Apprentice, 0,
\* 100), (2, Apprentice, 0, 100) and (6, Focused, 0, 250), and the title is
\* that of the range holding the level.
C18_TieredSchedule ==
    Resolved =>
        /\ cumulative_xp = Spent(level_info.level) + level_info.xpIntoLevel
        /\ level_info.xpIntoLevel < CostFrom(level_info.level)
        /\ level_info.xpForNextLevel = CostFrom(level_info.level)
        /\ level_info.title = TitleOf(level_info.level)
        /\ cumulative_xp = 0 => level_info = Info(1, "Apprentice", 0, 100)
        /\ cumulative_xp = 100 => level_info = Info(2, "Apprentice", 0, 100)
        /\ cumulative_xp = 500 => level_info = Info(6, "Focused", 0, 250)

\* the five level-ups of the first tier consumed exactly
C18_Witness ==
    /\ Resolved
    /\ cumulative_xp = 500
    /\ level_info.level = 6

Streaks == streak_stats.streaks
\* a completed session with which today's count is at the threshold, on a
\* day that is not yet the last qualifying date
ThresholdReached ==
    /\ SessionCompleted
    /\ streak_stats'.today.sessions >= sessions_per_day
    /\ Streaks.last_qualifying_date # NoDate
    /\ Streaks.last_qualifying_date # {today_date}
DaysBack == DaysSince(Streaks.last_qualifying_date)
\* the freeze earned by a daily streak that becomes n
EarnedAt(n) == IF n > 0 /\ n % freeze_earn_days = 0 THEN 1 ELSE 0

\* C19 as stated: when today's count reaches the threshold, a last
\* qualifying date of yesterday adds 1 to the daily streak and leaves the
\* freezes; one of 2 days ago adds 1 and takes one freeze if there is one,
\* and resets the streak to 1 if there is none.
C19_StreakOnThreshold ==
    [][ThresholdReached =>
          /\ DaysBack = 1 =>
                /\ Streaks'.daily_streak = Streaks.daily_streak + 1
                /\ Streaks'.freezes_available = Streaks.freezes_available
          /\ (DaysBack = 2 /\ Streaks.freezes_available >= 1) =>
                /\ Streaks'.daily_streak = Streaks.daily_streak + 1
                /\ Streaks'.freezes_available = Streaks.freezes_available - 1
          /\ (DaysBack = 2 /\ Streaks.freezes_available = 0) =>
                Streaks'.daily_streak = 1]_vars

\* C19 as amended: the same, and a daily streak that becomes a positive
\* multiple of freeze_earn_days earns one freeze, on top of the freezes left
\* by the rule; the day becomes the last qualifying date.
C19_StreakOnThresholdEarning ==
    [][ThresholdReached =>
          /\ DaysBack = 1 =>
                /\ Streaks'.daily_streak = Streaks.daily_streak + 1
                /\ Streaks'.freezes_available =
                      Streaks.freezes_available + EarnedAt(Streaks.daily_streak + 1)
          /\ (DaysBack = 2 /\ Streaks.freezes_available >= 1) =>
                /\ Streaks'.daily_streak = Streaks.daily_streak + 1
                /\ Streaks'.freezes_available =
                      Streaks.freezes_available - 1 + EarnedAt(Streaks.daily_streak + 1)
          /\ (DaysBack = 2 /\ Streaks.freezes_available = 0) =>
                /\ Streaks'.daily_streak = 1
                /\ Streaks'.freezes_available = 0
          /\ Streaks'.last_qualifying_date = {today_date}]_vars

\* a missed day was bridged on day 0: the streak went on and the one freeze
\* is gone
C19_Witness ==
    /\ streak_stats # NoStreaks
    /\ today_date = 0
    /\ Streaks.last_qualifying_date = {today_date}
    /\ streak_stats.today.sessions = sessions_per_day
    /\ Streaks.daily_streak = 3
    /\ Streaks.daily_streak_best = freeze_earn_days
    /\ Streaks.freezes_available = 0

\* C20: once today's threshold has been met and today recorded as the last
\* qualifying date, further completed sessions of the same day leave the
\* daily streak and the freezes as they are.
C20_IdempotentPerDay ==
    [][(/\ SessionCompleted
        /\ Streaks.last_qualifying_date = {today_date}
        /\ streak_stats.today.date = today_date
        /\ streak_stats.today.sessions >= sessions_per_day) =>
          /\ Streaks'.daily_streak = Streaks.daily_streak
          /\ Streaks'.freezes_available = Streaks.freezes_available
          /\ Streaks'.last_qualifying_date = Streaks.last_qualifying_date]_vars

\* a session beyond the threshold on a day whose streak is a multiple of
\* freeze_earn_days
C20_Witness ==
    /\ streak_stats # NoStreaks
    /\ Streaks.last_qualifying_date = {today_date}
    /\ streak_stats.today.date = today_date
    /\ streak_stats.today.sessions > sessions_per_day
    /\ Streaks.daily_streak = freeze_earn_days

\* the cumulative XP held by the stats file
StoredXP ==
    IF STATS_FILE # NoFile /\ "cumulative_xp" \in DOMAIN STATS_FILE
    THEN STATS_FILE.cumulative_xp
    ELSE 0

\* C21: a completed session is awarded the base amount plus the additive
\* bonuses, then the streak multiplier, then the critical hit: when the goal
\* was achieved, nothing distracted, the session is the day's first, no
\* daily streak runs and no critical hit falls, start adds
\* 50 + 15 + 20 + 25 = 110 XP to the stored cumulative XP.
C21_XPAwardedOnCompletion ==
    [][(/\ CompletedSave
        /\ goal_achieved = "y"
        /\ result.distractions = 0
        /\ TodayAsLoaded[1] = 0) =>
          StoredXP' = StoredXP + (50 + 15 + 20 + 25)]_vars

\* the daily streak held by a stats file, 0 when it tracks no streak
DailyStreakOf(f) ==
    IF f # NoFile /\ "streaks" \in DOMAIN f THEN f.streaks.daily_streak ELSE 0

\* C22: a session that was stopped or interrupted still goes through the
\* streak tracker with completed=false: the stats its abort path saves hold
\* a current run of 0, and the daily streak they held before.
C22_AbortResetsCurrentRun ==
    [][AbortedSave =>
          /\ "streaks" \in DOMAIN STATS_FILE'
          /\ STATS_FILE'.streaks.current_run = 0
          /\ DailyStreakOf(STATS_FILE') = DailyStreakOf(STATS_FILE)]_vars

\* C23: while the loop is paused the countdown stands still and the loop
\* does not finish by expiry; it leaves the paused state only by the resume
\* key (running again), by an accepted stop (stopped) or by an interrupt
\* (interrupted): no other key and no refused stop resumes the countdown.
C23_PausedLeftByResumeStopInterrupt ==
    [][(InTimer /\ paused) =>
          /\ pc' = "timer" => ActiveSeconds' = ActiveSeconds
          /\ UiReturns =>
                \/ /\ ReturnsReason("stopped")
                   /\ StopKeyHandled
                   /\ handle_stop_request(commitment, typed)
                \/ ReturnsReason("interrupted") /\ UiInterrupt
          /\ (pc' = "timer" /\ ~paused') => PollPaused("\n")]_vars

\* what the commitment check accepts: anything at soft, a reason of at least
\* 20 characters at standard, the exact phrase at deep
CheckPasses ==
    \/ commitment = "soft"
    \/ commitment = "standard" /\ Len(typed) >= 20
    \/ commitment = "deep" /\ typed = "I choose to break my commitment"

\* C24: a stop request ends the session only if the commitment check
\* passes (always at soft, a reason of 20 characters or more at standard,
\* the exact phrase at deep); when it fails the loop does not return, the
\* distraction counter keeps its value and the session goes on.
C24_StopOnlyIfCheckPasses ==
    [][/\ StopKeyHandled =>
            IF CheckPasses
            THEN ReturnsReason("stopped") /\ result'.distractions = distractions
            ELSE /\ pc' = "timer"
                 /\ result' = NoResult
                 /\ distractions' = distractions
                 /\ ACTIVE_SESSION_FILE' = ACTIVE_SESSION_FILE
       /\ ReturnsReason("stopped") => (StopKeyHandled /\ CheckPasses)]_vars

\* the loop goes on after a stop refused at the deep level for a reason that
\* would have passed at standard
C24_Witness ==
    /\ pc = "timer"
    /\ commitment = "deep"
    /\ loc = "answered"
    /\ Len(typed) >= 20
    /\ typed # BreakPhrase
    /\ distractions > 0

\* session.sessions_before_long_break as configured, 4 by default
sessions_before_long_break ==
    get(get(load_config, "session", EmptyDict), "sessions_before_long_break", 4)
StandardBreak == shown' \in {"long_break", "short_break"}

\* C25: after a completed session that gets the standard break, the long
\* break is suggested exactly when today's count of completed sessions is a
\* positive multiple of the configured session.sessions_before_long_break,
\* and the short break otherwise.
C25_LongBreakEveryConfigured ==
    [][(CompletedSave /\ StandardBreak) =>
          (shown' = "long_break" <=>
              (stats.today.sessions > 0
               /\ stats.today.sessions % sessions_before_long_break = 0))]_vars

\* neuroscience.ultradian.enforce_rest_after_90 as start reads it
enforce_rest_after_90 ==
    get(get(get(load_config, "neuroscience", EmptyDict), "ultradian", EmptyDict),
        "enforce_rest_after_90", FALSE)

\* C26: the ultradian rest replaces the standard break exactly after
\* completed sessions of 90 minutes or more with enforce_rest_after_90
\* enabled; a completed session shorter than 90 minutes gets the standard
\* break, short or long.
C26_UltradianRestFrom90 ==
    [][CompletedSave =>
          /\ shown' = "ultradian_rest" <=> (duration >= 90 /\ enforce_rest_after_90)
          /\ duration < 90 => StandardBreak]_vars

\* start returns from its prompts: the essentialism check was declined
Cancelled == pc = "prompts" /\ pc' = "idle" /\ exit' = "returned"

\* C27: a session cancelled at the essentialism check leaves every stored
\* record as it was: from the entry of start to its return no marker is
\* written, no record is appended and the stats are not saved.
C27_CancelLeavesRecords ==
    [][/\ (pc = "idle" /\ pc' = "prompts") => files' = files
       /\ Cancelled =>
             /\ ACTIVE_SESSION_FILE' = ACTIVE_SESSION_FILE
             /\ SESSIONS_FILE' = SESSIONS_FILE
             /\ STATS_FILE' = STATS_FILE]_vars

\* a first run cancelled: start has returned and no file exists
C27_Witness ==
    /\ pc = "idle" /\ exit = "returned" /\ shown = "none"
    /\ STATS_FILE = NoFile
    /\ SESSIONS_FILE = <<>>
    /\ ~MarkerPresent

\* the status query runs: the command itself, or the bare invocation that
\* finds the marker
StatusQuery == status \/ (cli /\ MarkerPresent)

\* C28: the status query only reads: with or without a session in progress
\* it leaves the marker, the stats file and the history as they are, and
\* while the marker is present it reports "session in progress".
C28_StatusReadOnly ==
    [][StatusQuery =>
          /\ ACTIVE_SESSION_FILE' = ACTIVE_SESSION_FILE
          /\ STATS_FILE' = STATS_FILE
          /\ SESSIONS_FILE' = SESSIONS_FILE
          /\ MarkerPresent => (shown' = "in_progress" /\ exit' = "returned")
          /\ ~MarkerPresent => shown' # "in_progress"]_vars

\* the status asked for while a marker and a saved session exist: the marker
\* is still there and the session in progress was reported
C28_Witness ==
    /\ pc = "idle" /\ exit = "returned"
    /\ shown = "in_progress"
    /\ MarkerPresent
    /\ STATS_FILE # NoFile
    /\ SESSIONS_FILE # <<>>

\* the completed records of a history are those that carry a duration
IsCompletedRecord(r) == "duration" \in DOMAIN r
RECURSIVE CompletedCount(_)
CompletedCount(h) ==
    IF h = <<>> THEN 0
    ELSE (IF IsCompletedRecord(Head(h)) THEN 1 ELSE 0) + CompletedCount(Tail(h))
RECURSIVE CompletedMinutes(_)
CompletedMinutes(h) ==
    IF h = <<>> THEN 0
    ELSE (IF IsCompletedRecord(Head(h)) THEN Head(h).duration ELSE 0)
         + CompletedMinutes(Tail(h))

\* C29: starting from the empty state, whenever no command is running the
\* stored total_sessions is the number of completed records in the history
\* and the stored total_focus_minutes is the sum of their durations.
C29_StatsMatchHistory ==
    pc = "idle" =>
        /\ StoredCounters[1] = CompletedCount(SESSIONS_FILE)
        /\ StoredCounters[2] = CompletedMinutes(SESSIONS_FILE)

\* C30: whatever duration is entered, zero and negative integers included,
\* the stored total_sessions, total_focus_minutes and today's focus_minutes
\* never decrease over any sequence of commands.
C30_CountersNeverDecrease ==
    [][/\ StoredCounters'[1] >= StoredCounters[1]
       /\ StoredCounters'[2] >= StoredCounters[2]
       /\ StoredCounters'[4] >= StoredCounters[4]]_vars
====
